---------------------------- MODULE Spec2Model ----------------------------
(***************************************************************************)
(* Model of the chord-space visualiser: main() parses a MIDI file into     *)
(* four-voice frames (midi.rs), converts adjacent frames into motion       *)
(* vectors (transformation.rs) and animates them (engine.rs).              *)
(*                                                                         *)
(* Number representation.  f32 values are modelled exactly by integers:    *)
(*   - times are in quarter milliseconds, so MOTION_SPEED = 0.125 s is     *)
(*     500 (progress 0.5 and 0.75 are then whole numbers);                 *)
(*   - transition_progress holds progress * MOTION_SPEED (the division by  *)
(*     0.125 is an exact scaling in f32), so "progress >= 1.0" reads       *)
(*     transition_progress >= MOTION_SPEED;                                *)
(*   - hues are in hundredths, so COLOR_SCALE = 0.03 is 3 and "% 1.0" is   *)
(*     "% 100";                                                            *)
(*   - positions are the integers m * 1000 / 100 (exact in f32).           *)
(* The field `timer` of AnimationState is only ever written               *)
(* (engine.rs:63) and is left out of the state.                            *)
(***************************************************************************)
EXTENDS Integers, Sequences, FiniteSets, TLC

VARIABLES
    pc,               \* position of main(): parse .. convert .. render loop
    smf,              \* the parsed file: [timing, tracks]
    ticks_per_16th,   \* midi.rs:15
    voice_timelines,  \* midi.rs:18, one timeline per voice
    track_idx,        \* midi.rs:19, 1-based index of the track being read
    notes_by_tick,    \* midi.rs:21, tick -> pitch of the track being read
    tick,             \* midi.rs:36
    max_tick,         \* midi.rs:37
    last_note,        \* midi.rs:38
    len,              \* midi.rs:51
    voice_leadings,   \* main.rs:28, the frames returned by parse
    transformation,   \* main.rs:36, the motion vectors returned by convert
    state,            \* engine.rs:275, the AnimationState
    running,          \* engine.rs:284
    delta_time,       \* engine.rs:289
    ret,              \* what the latest state.update call returned
    sphere_position,  \* engine.rs:296-300, times MOTION_SPEED
    interpolated_hue  \* engine.rs:141, the hue handed to rgba::hsv_to_rgb,
                      \* in hundredths times MOTION_SPEED

vars == <<pc, smf, ticks_per_16th, voice_timelines, track_idx, notes_by_tick,
          tick, max_tick, last_note, len, voice_leadings, transformation,
          state, running, delta_time, ret, sphere_position, interpolated_hue>>

parseVars == <<smf, ticks_per_16th, voice_timelines, track_idx, notes_by_tick,
               tick, max_tick, last_note, len>>

renderVars == <<state, running, delta_time, ret, sphere_position, interpolated_hue>>

-----------------------------------------------------------------------------
(* Program constants *)

POSITION_SCALE == 1000

COLOR_SCALE == 3

MOTION_SPEED == 500

HISTORY_CAP == 100

VOICES == 4

-----------------------------------------------------------------------------
(* Small helpers *)

Abs(x) == IF x < 0 THEN -x ELSE x

Min(a, b) == IF a < b THEN a ELSE b

Max(a, b) == IF a > b THEN a ELSE b

-----------------------------------------------------------------------------
(* transformation.rs *)

TMatrix ==
    << <<1, 1, 1, 1>>,
       <<1, -1, -1, 1>>,
       <<1, -1, 1, -1>>,
       <<1, 1, -1, -1>> >>

matmul4x4(d, t) ==
    [r \in 1..4 |->
        d[1] * t[r][1] + d[2] * t[r][2] + d[3] * t[r][3] + d[4] * t[r][4]]

\* mutant: the difference taken the wrong way round
matdif4x1_Reversed(a, b) == [j \in 1..4 |-> a[j] - b[j]]

matdif4x1(a, b) == [j \in 1..4 |-> b[j] - a[j]]

transform(start, end) == matmul4x4(matdif4x1(start, end), TMatrix)

\* The loop bound voice_leadings.len() - 1 is computed in usize: for an empty
\* input it overflows (a panic in a debug build; in a release build it wraps
\* and voice_leadings[0] is out of range, a panic as well).
convertPanics(frames) == Len(frames) = 0

convert(frames) == [i \in 1..(Len(frames) - 1) |-> transform(frames[i], frames[i + 1])]

-----------------------------------------------------------------------------
(* engine.rs: AnimationState *)

\* mutant: the component is used without the scale
ScalePosition_Unscaled(m) == m

ScalePosition(m) == (m * POSITION_SCALE) \div 100

HueOf(m0) == Abs(m0 * COLOR_SCALE) % 100

new(motions) ==
    LET first_motion == IF motions # <<>> THEN motions[1] ELSE <<0, 0, 0, 0>>
        initial_hue == HueOf(first_motion[1])
    IN  [ motions |-> motions,
          current_position |-> <<0, 0, 0>>,
          target_position |-> << ScalePosition(first_motion[2]),
                                 ScalePosition(first_motion[3]),
                                 ScalePosition(first_motion[4]) >>,
          current_index |-> 0,
          transition_progress |-> 0,
          current_hue |-> initial_hue,
          target_hue |-> initial_hue,
          position_history |-> <<>> ]

AddProgress(progress, dt) == progress + dt

\* mutant: a progress of exactly 1 is not taken as a crossing
CrossesBoundary_Strict(progress) == progress > MOTION_SPEED

CrossesBoundary(progress) == progress >= MOTION_SPEED

\* mutant: the overshoot is carried into the next keyframe
ResetProgress_KeepRemainder(progress) == progress - MOTION_SPEED

\* mutant: the reset is left out
ResetProgress_Forgotten(progress) == progress

ResetProgress(progress) == 0

\* mutant: the trail is never trimmed
PushHistory_NoEvict(history, position) == Append(history, position)

\* mutant: a full trail drops the entry just pushed instead of the oldest
PushHistory_EvictNewest(history, position) ==
    LET pushed == Append(history, position)
    IN  IF Len(pushed) > HISTORY_CAP THEN SubSeq(pushed, 1, HISTORY_CAP) ELSE pushed

PushHistory(history, position) ==
    LET pushed == Append(history, position)
    IN  IF Len(pushed) > HISTORY_CAP THEN Tail(pushed) ELSE pushed

\* mutant: a catch-up step over every keyframe the elapsed time covers
NextIndex_CatchUp(index, progress) == index + (progress \div MOTION_SPEED)

NextIndex(index, progress) == index + 1

\* mutant: the end test is an equality
ReachedEnd_Equal(index, count) == index = count

\* mutant: the end test off by one
ReachedEnd_OffByOne(index, count) == index > count

ReachedEnd(index, count) == index >= count

\* update(&mut self, delta_time) -> bool, as [state |-> self afterwards,
\* ret |-> the result, panics |-> whether motions[current_index] was out of range]
update(self, dt) ==
    LET progress == AddProgress(self.transition_progress, dt)
    IN  IF ~CrossesBoundary(progress)
        THEN [state |-> [self EXCEPT !.transition_progress = progress],
              ret |-> TRUE, panics |-> FALSE]
        ELSE
            LET position == self.target_position
                index == NextIndex(self.current_index, progress)
                moved == [self EXCEPT
                            !.transition_progress = ResetProgress(progress),
                            !.current_position = position,
                            !.position_history = PushHistory(@, position),
                            !.current_index = index]
            IN  IF ReachedEnd(index, Len(self.motions))
                THEN [state |-> moved, ret |-> FALSE, panics |-> FALSE]
                ELSE IF index >= Len(self.motions)
                THEN [state |-> [moved EXCEPT !.current_hue = self.target_hue],
                      ret |-> FALSE, panics |-> TRUE]
                ELSE
                    \* motions[current_index], 0-based in the source
                    LET motion == self.motions[index + 1]
                    IN  [state |-> [moved EXCEPT
                            !.current_hue = self.target_hue,
                            !.target_hue = HueOf(motion[1]),
                            !.target_position =
                                << position[1] + ScalePosition(motion[2]),
                                   position[2] + ScalePosition(motion[3]),
                                   position[3] + ScalePosition(motion[4]) >>],
                         ret |-> TRUE, panics |-> FALSE]

\* interpolated_position(&self), every component times MOTION_SPEED
interpolated_position(self) ==
    [c \in 1..3 |->
        self.current_position[c] * MOTION_SPEED
            + (self.target_position[c] - self.current_position[c])
                  * self.transition_progress]

\* mutant: the hue difference is used as it is
ShorterArc_Direct(hue_diff) == hue_diff

\* engine.rs:134-140: the difference taken round the colour wheel
ShorterArc(hue_diff) ==
    IF Abs(hue_diff) > 50
    THEN (IF hue_diff > 0 THEN hue_diff - 100 ELSE hue_diff + 100)
    ELSE hue_diff

\* f32::fract: x - x.trunc(), which keeps the sign of x; `one` is 1.0
Fract(x, one) == IF x >= 0 THEN x % one ELSE -((-x) % one)

\* interpolated_color(&self): the hue it hands to rgba::hsv_to_rgb, in
\* hundredths times MOTION_SPEED (the conversion to RGB is in rgba.rs)
interpolated_color(self) ==
    LET hue_diff == ShorterArc(self.target_hue - self.current_hue)
    IN  Fract(self.current_hue * MOTION_SPEED + hue_diff * self.transition_progress,
              100 * MOTION_SPEED)

-----------------------------------------------------------------------------
(* midi.rs: parse *)

NoteOn(d, k, v) == [delta |-> d, kind |-> "NoteOn", key |-> k, vel |-> v]

NoteOff(d, k) == [delta |-> d, kind |-> "NoteOff", key |-> k, vel |-> 0]

EmptyMap == <<>>

\* BTreeMap::insert: a later entry at the same tick replaces the earlier one
Insert(notes, t, k) == [x \in (DOMAIN notes) \cup {t} |-> IF x = t THEN k ELSE notes[x]]

\* mutant: note-off events are recorded as well
Recorded_WithNoteOff(event) == event.kind \in {"NoteOn", "NoteOff"}

Recorded(event) == event.kind = "NoteOn" /\ event.vel > 0

RECURSIVE NotesByTick(_, _, _, _)
\* the loop over the events of one track, from event i on
NotesByTick(track, i, abs_tick, notes) ==
    IF i > Len(track) THEN notes
    ELSE LET t == abs_tick + track[i].delta
         IN  NotesByTick(track, i + 1, t,
                         IF Recorded(track[i]) THEN Insert(notes, t, track[i].key)
                                               ELSE notes)

\* *notes_by_tick.keys().last().unwrap_or(&0)
MaxTick(notes) ==
    IF DOMAIN notes = {} THEN 0
    ELSE CHOOSE t \in DOMAIN notes : \A u \in DOMAIN notes : u <= t

RECURSIVE FindNonzero(_, _)
\* timeline.iter().find(|&&note| note != 0): the index found, 0 for None
FindNonzero(timeline, i) ==
    IF i > Len(timeline) THEN 0
    ELSE IF timeline[i] # 0 THEN i
    ELSE FindNonzero(timeline, i + 1)

RECURSIVE FillFrom_NoBreak(_, _, _)
\* mutant: the loop does not break at the first non-zero sample
FillFrom_NoBreak(timeline, i, v) ==
    IF i > Len(timeline) THEN timeline
    ELSE IF timeline[i] = 0 THEN FillFrom_NoBreak([timeline EXCEPT ![i] = v], i + 1, v)
    ELSE FillFrom_NoBreak(timeline, i + 1, v)

RECURSIVE FillFrom(_, _, _)
\* for note in timeline.iter_mut() { if *note == 0 { *note = v } else { break } }
FillFrom(timeline, i, v) ==
    IF i > Len(timeline) THEN timeline
    ELSE IF timeline[i] = 0 THEN FillFrom([timeline EXCEPT ![i] = v], i + 1, v)
    ELSE timeline

backfill(timeline) ==
    LET k == FindNonzero(timeline, 1)
    IN  IF k = 0 THEN timeline ELSE FillFrom(timeline, 1, timeline[k])

RECURSIVE MaxLen(_, _)
\* voice_timelines.iter().map(Vec::len).max().unwrap_or(0)
MaxLen(timelines, i) ==
    IF i > Len(timelines) THEN 0
    ELSE Max(Len(timelines[i]), MaxLen(timelines, i + 1))

\* mutant: a voice that has ended keeps its last pitch
SampleAt_Sustained(timelines, v, i) ==
    IF v <= Len(timelines) /\ i <= Len(timelines[v]) THEN timelines[v][i]
    ELSE IF v <= Len(timelines) /\ timelines[v] # <<>>
         THEN timelines[v][Len(timelines[v])]
         ELSE 0

\* voice_timelines.get(v).and_then(|t| t.get(i)).unwrap_or(&0)
SampleAt(timelines, v, i) ==
    IF v <= Len(timelines) /\ i <= Len(timelines[v]) THEN timelines[v][i] ELSE 0

combine(timelines, n) ==
    [i \in 1..n |-> [v \in 1..VOICES |-> SampleAt(timelines, v, i)]]

-----------------------------------------------------------------------------
(* Bounds and inputs *)

MaxEvents == 2

MaxTracks == 4

MaxSamples == 6

MaxBase == 2

SmallCount == 3

MaxCount == 102

MaxAfterStop == 2

\* ticks-per-quarter-note values; 2 gives ticks_per_16th = 0
TPQs == {2, 4, 8}

Timings == {<<"Metrical", q>> : q \in TPQs} \cup {<<"Timecode", 0>>}

Events ==
    {NoteOn(d, k, 64) : d \in {0, 1, 2}, k \in {0, 60}}
        \cup {NoteOn(1, 64, 0), NoteOff(2, 60)}

SeqsUpTo(S, n) == UNION {[1..m -> S] : m \in 0..n}

\* one voice with any short event list
SoloTracks == SeqsUpTo(Events, MaxEvents)

\* a note struck at tick 0 and released `hold` ticks later
HeldNote(k, hold) == <<NoteOn(0, k, 64), NoteOff(hold, k)>>

ChordTracks(q) ==
    {HeldNote(60, 2 * (q \div 4)), HeldNote(64, 2 * (q \div 4)),
     <<NoteOn(q \div 4, 60, 64), NoteOn(q \div 4, 62, 64)>>,
     <<NoteOn(q \div 4, 64, 64), NoteOn(q \div 4, 59, 64)>>}

ChordPair(q) ==
    {HeldNote(60, 2 * (q \div 4)), <<NoteOn(q \div 4, 60, 64), NoteOn(q \div 4, 62, 64)>>}

\* files with one track more than there are voices
OverfullInputs ==
    UNION {{[timing |-> <<"Metrical", q>>, tracks |-> Append(trs, extra)] :
                trs \in [1..VOICES -> ChordPair(q)], extra \in ChordTracks(q)} :
           q \in TPQs}

Inputs ==
    {[timing |-> t, tracks |-> <<tr>>] : t \in Timings, tr \in SoloTracks}
        \cup UNION {{[timing |-> <<"Metrical", q>>, tracks |-> trs] :
                        trs \in SeqsUpTo(ChordTracks(q), MaxTracks)} : q \in TPQs}
        \cup OverfullInputs

DeltaTimes == {0, 200, MOTION_SPEED, 5 * MOTION_SPEED}

BaseVectors == {transform(<<0, 0, 0, 0>>, d) : d \in {<<1, 0, 0, 0>>, <<0, -2, 0, 1>>}}

Cyclic(base, n) == [j \in 1..n |-> base[((j - 1) % Len(base)) + 1]]

RenderCounts == (0..SmallCount) \cup ((HISTORY_CAP + 1)..MaxCount)

\* motion-vector sequences handed to render: short ones, and ones longer than
\* the history buffer
RenderInputs ==
    {Cyclic(base, n) : base \in (SeqsUpTo(BaseVectors, MaxBase) \ {<<>>}), n \in RenderCounts}

\* the value of `state` before AnimationState::new has run
Unbuilt == new(<<>>)

-----------------------------------------------------------------------------
(* main.rs and midi.rs: the steps of main() up to the call of render *)

\* midi.rs:8-18: the timing check, ticks_per_16th and the empty timelines
\* mutant: every timing is taken as ticks per quarter note
TimingSupported_Any(timing) == TRUE

\* midi.rs:11-14: Timing::Metrical(tpq) is the only arm that does not return Err
TimingSupported(timing) == timing[1] = "Metrical"

ParseHeader ==
    /\ pc = "parse"
    /\ IF TimingSupported(smf.timing)
       THEN /\ ticks_per_16th' = smf.timing[2] \div 4
            /\ voice_timelines' = [v \in 1..VOICES |-> <<>>]
            /\ track_idx' = 1
            /\ pc' = "track"
       ELSE /\ pc' = "error"
            /\ UNCHANGED <<ticks_per_16th, voice_timelines, track_idx>>
    /\ UNCHANGED <<smf, notes_by_tick, tick, max_tick, last_note, len,
                   voice_leadings, transformation, renderVars>>

\* smf.tracks.iter().take(4)
TracksTaken == Min(Len(smf.tracks), VOICES)

\* midi.rs:19-38: the events of the next track, or the end of the track loop
ReadTrack ==
    /\ pc = "track"
    /\ IF track_idx <= TracksTaken
       THEN LET notes == NotesByTick(smf.tracks[track_idx], 1, 0, EmptyMap)
            IN  /\ notes_by_tick' = notes
                /\ tick' = 0
                /\ max_tick' = MaxTick(notes)
                /\ last_note' = 0
                /\ pc' = "sample"
       ELSE /\ pc' = "backfill"
            /\ UNCHANGED <<notes_by_tick, tick, max_tick, last_note>>
    /\ UNCHANGED <<smf, ticks_per_16th, voice_timelines, track_idx, len,
                   voice_leadings, transformation, renderVars>>

\* midi.rs:40-47: one test of `while tick <= max_tick` and, when it holds, one
\* pass of the loop body (MaxSamples caps the pushes of a loop that never ends)
SampleStep ==
    /\ pc = "sample"
    /\ tick <= max_tick => Len(voice_timelines[track_idx]) < MaxSamples
    /\ IF tick <= max_tick
       THEN LET note == IF tick \in DOMAIN notes_by_tick
                        THEN notes_by_tick[tick] ELSE last_note
            IN  /\ last_note' = note
                /\ voice_timelines' =
                       [voice_timelines EXCEPT ![track_idx] = Append(@, note)]
                /\ tick' = tick + ticks_per_16th
                /\ UNCHANGED <<track_idx, pc>>
       ELSE /\ track_idx' = track_idx + 1
            /\ pc' = "track"
            /\ UNCHANGED <<last_note, voice_timelines, tick>>
    /\ UNCHANGED <<smf, ticks_per_16th, notes_by_tick, max_tick, len,
                   voice_leadings, transformation, renderVars>>

\* midi.rs:51-64
Backfill ==
    /\ pc = "backfill"
    /\ len' = MaxLen(voice_timelines, 1)
    /\ voice_timelines' = [v \in 1..VOICES |-> backfill(voice_timelines[v])]
    /\ pc' = "combine"
    /\ UNCHANGED <<smf, ticks_per_16th, track_idx, notes_by_tick, tick, max_tick,
                   last_note, voice_leadings, transformation, renderVars>>

\* midi.rs:65-76 and main.rs:28
Combine ==
    /\ pc = "combine"
    /\ voice_leadings' = combine(voice_timelines, len)
    /\ pc' = "convert"
    /\ UNCHANGED <<parseVars, transformation, renderVars>>

\* main.rs:36
Convert ==
    /\ pc = "convert"
    /\ IF convertPanics(voice_leadings)
       THEN pc' = "panic" /\ UNCHANGED transformation
       ELSE transformation' = convert(voice_leadings) /\ pc' = "render"
    /\ UNCHANGED <<parseVars, voice_leadings, renderVars>>

-----------------------------------------------------------------------------
(* engine.rs: render *)

\* engine.rs:250-284
RenderStart ==
    /\ pc = "render"
    /\ IF transformation = <<>>
       THEN pc' = "done" /\ UNCHANGED <<state, running>>
       ELSE state' = new(transformation) /\ running' = TRUE /\ pc' = "loop"
    /\ UNCHANGED <<parseVars, voice_leadings, transformation, delta_time, ret,
                   sphere_position, interpolated_hue>>

\* the `&& running` of the loop condition
LoopGuard(r) == r

\* engine.rs:286-315: one pass of the animation loop, the window still open;
\* dt is the measured time, escape whether an Escape release is among the events
Frame(dt, escape) ==
    /\ pc = "loop"
    /\ LoopGuard(running)
    /\ LET r == update(state, dt)
       IN  /\ delta_time' = dt
           /\ state' = r.state
           /\ IF r.panics
              THEN pc' = "panic" /\ UNCHANGED <<ret, running, sphere_position, interpolated_hue>>
              ELSE /\ ret' = (IF r.ret THEN "true" ELSE "false")
                   /\ sphere_position' = interpolated_position(r.state)
                   /\ interpolated_hue' = interpolated_color(r.state)
                   /\ running' = (IF escape THEN FALSE ELSE r.ret)
                   /\ pc' = pc
    /\ UNCHANGED <<parseVars, voice_leadings, transformation>>

\* engine.rs:286: the loop ends when the window is closed or running is false
ExitLoop ==
    /\ pc = "loop"
    /\ \E window_open \in BOOLEAN : ~(window_open /\ LoopGuard(running))
    /\ pc' = "done"
    /\ UNCHANGED <<parseVars, voice_leadings, transformation, renderVars>>

-----------------------------------------------------------------------------
(* Specifications *)

InitLocals ==
    /\ ticks_per_16th = 0
    /\ voice_timelines = <<>>
    /\ track_idx = 0
    /\ notes_by_tick = EmptyMap
    /\ tick = 0
    /\ max_tick = 0
    /\ last_note = 0
    /\ len = 0
    /\ voice_leadings = <<>>
    /\ state = Unbuilt
    /\ running = FALSE
    /\ delta_time = 0
    /\ ret = "none"
    /\ sphere_position = <<0, 0, 0>>
    /\ interpolated_hue = 0

\* main() on a parsed file
Init ==
    /\ pc = "parse"
    /\ smf \in Inputs
    /\ transformation = <<>>
    /\ InitLocals

Render ==
    \/ RenderStart
    \/ \E dt \in DeltaTimes, escape \in BOOLEAN : Frame(dt, escape)
    \/ ExitLoop

Next ==
    \/ ParseHeader
    \/ ReadTrack
    \/ SampleStep
    \/ Backfill
    \/ Combine
    \/ Convert
    \/ Render

Spec == Init /\ [][Next]_vars

\* render() called with a motion-vector sequence
InitRender ==
    /\ pc = "render"
    /\ smf = [timing |-> <<"Metrical", 4>>, tracks |-> <<>>]
    /\ transformation \in RenderInputs
    /\ InitLocals

NextRender ==
    \/ RenderStart
    \/ \E dt \in DeltaTimes, escape \in BOOLEAN : Frame(dt, escape)
    \/ ExitLoop

SpecRender == InitRender /\ [][NextRender]_vars

-----------------------------------------------------------------------------
(* Properties of the animation state machine, checked under SpecRender *)

\* a step of the render loop that calls state.update
IsUpdateCall == \E dt \in DeltaTimes, escape \in BOOLEAN : Frame(dt, escape)

StateBuilt == pc \in {"loop", "done", "panic"} /\ state.motions # <<>>

Count == Len(state.motions)

\* C1: update returns false exactly on the call in which current_index first
\* becomes equal to the number of motion vectors, every other call returns
\* true, and the render loop calls update no more once it has returned false.
C1_StopExactlyOnce ==
    [][ /\ IsUpdateCall =>
            (ret' = "false" <=>
                (state.current_index < Count /\ state'.current_index = Count))
        /\ IsUpdateCall => ret' \in {"true", "false"}
        /\ ret = "false" => ~IsUpdateCall ]_vars

C1_Witness ==
    /\ pc = "loop"
    /\ ret = "false"
    /\ ~running
    /\ Count > HISTORY_CAP
    /\ state.current_index = Count

\* C2: in every step current_index stays or grows by exactly one, however
\* large delta_time is.
C2_IndexStep ==
    [][state'.current_index \in {state.current_index, state.current_index + 1}]_vars

\* a first boundary crossed with a delta_time worth five keyframe durations
C2_Witness ==
    /\ pc = "loop"
    /\ delta_time = 5 * MOTION_SPEED
    /\ ret = "true"
    /\ Count > 5
    /\ state.current_index = 1

\* C3: an update call that leaves current_index alone does not decrease
\* transition_progress and does not reset it; a call that increments
\* current_index leaves transition_progress at 0.
C3_ProgressMonotone ==
    [][IsUpdateCall =>
        /\ state'.current_index = state.current_index =>
              /\ state'.transition_progress >= state.transition_progress
              /\ state'.transition_progress = 0 =>
                    state.transition_progress + delta_time' = 0
        /\ state'.current_index # state.current_index =>
              state'.transition_progress = 0]_vars

\* progress has grown twice within a keyframe entered by a reset
C3_Witness ==
    /\ pc = "loop"
    /\ state.current_index >= 1
    /\ state.transition_progress = 400

\* C4: position_history never holds more than 100 entries.
C4_HistoryBounded == Len(state.position_history) <= HISTORY_CAP

\* a full trail after more than 100 boundary crossings
C4_Witness ==
    /\ state.current_index > HISTORY_CAP
    /\ Len(state.position_history) = HISTORY_CAP

Moved(position, motion) ==
    << position[1] + 10 * motion[2],
       position[2] + 10 * motion[3],
       position[3] + 10 * motion[4] >>

RECURSIVE Visited(_, _)
\* the position that became current at the j-th boundary crossing
Visited(motions, j) ==
    IF j = 0 THEN <<0, 0, 0>> ELSE Moved(Visited(motions, j - 1), motions[j])

\* C5: after k boundary crossings position_history is, oldest first, the last
\* min(k, 100) positions that became current_position.
C5_HistoryOrder ==
    StateBuilt /\ state.current_index <= Count =>
        LET k == state.current_index
            m == Min(k, HISTORY_CAP)
            h == state.position_history
        IN  /\ Len(h) = m
            /\ m > 0 => h[1] = Visited(state.motions, k - m + 1)
            /\ \A i \in 1..(m - 1) : h[i + 1] = Moved(h[i], state.motions[k - m + i + 1])

\* two entries have been evicted from a full trail
C5_Witness ==
    /\ StateBuilt
    /\ state.current_index = HISTORY_CAP + 2
    /\ Len(state.position_history) = HISTORY_CAP
    /\ state.position_history[1] = Visited(state.motions, 3)

\* C6: an update call with delta_time = 0 changes no field of the state and
\* returns true.
C6_ZeroDeltaNoChange ==
    [][(\E escape \in BOOLEAN : Frame(0, escape)) =>
            state' = state /\ ret' = "true"]_vars

\* a zero-delta call made part-way through a later keyframe
C6_Witness ==
    /\ pc = "loop"
    /\ delta_time = 0
    /\ ret = "true"
    /\ state.current_index >= 1
    /\ state.transition_progress > 0

-----------------------------------------------------------------------------
(* Properties of parse and convert, checked under Spec *)

\* convert has returned
Converted == pc \in {"render", "loop", "done"}

\* track 1 strikes 60 and track 2 strikes 64 at tick 0, both released two
\* sixteenth-note steps later, tracks 3 and 4 absent
Scenario(q) ==
    [timing |-> <<"Metrical", q>>,
     tracks |-> <<HeldNote(60, 2 * (q \div 4)), HeldNote(64, 2 * (q \div 4))>>]

IsScenario == \E q \in TPQs : smf = Scenario(q)

\* C7 as claimed: the scenario yields the two frames [[60,64,0,0],[60,64,0,0]]
\* and the single motion vector [0,0,0,0].
C7_ScenarioTwoFrames ==
    IsScenario /\ Converted =>
        /\ voice_leadings = << <<60, 64, 0, 0>>, <<60, 64, 0, 0>> >>
        /\ transformation = << <<0, 0, 0, 0>> >>

\* C7 as amended: the releases are not recorded, so each voice is sampled at
\* tick 0 only; the scenario yields the single frame [[60,64,0,0]] and no
\* motion vector.
C7_ScenarioOneFrame ==
    IsScenario /\ Converted =>
        /\ voice_leadings = << <<60, 64, 0, 0>> >>
        /\ transformation = <<>>

C7_Witness == smf = Scenario(4) /\ pc = "done"

\* C8: motion[i] = T * (frame[i+1] - frame[i]), component by component.
C8_MotionIsTransformOfDelta ==
    Converted =>
        \A i \in 1..Len(transformation) :
            LET d0 == voice_leadings[i + 1][1] - voice_leadings[i][1]
                d1 == voice_leadings[i + 1][2] - voice_leadings[i][2]
                d2 == voice_leadings[i + 1][3] - voice_leadings[i][3]
                d3 == voice_leadings[i + 1][4] - voice_leadings[i][4]
            IN  transformation[i] =
                    << d0 + d1 + d2 + d3, d0 - d1 - d2 + d3,
                       d0 - d1 + d2 - d3, d0 + d1 - d2 - d3 >>

\* two voices move by different amounts between two frames
C8_Witness ==
    /\ Converted
    /\ \E i \in 1..Len(transformation) :
          /\ voice_leadings[i + 1][1] - voice_leadings[i][1] = 2
          /\ voice_leadings[i + 1][2] - voice_leadings[i][2] = -5

\* C9 as claimed: convert returns for every frame sequence parse produces, with
\* N - 1 motion vectors for N >= 2 frames and none for N <= 1.
C9_ConvertTotal ==
    /\ pc # "panic"
    /\ Converted =>
          Len(transformation) =
              (IF Len(voice_leadings) >= 2 THEN Len(voice_leadings) - 1 ELSE 0)

FirstNonzero(timeline) ==
    CHOOSE k \in 1..Len(timeline) :
        timeline[k] # 0 /\ \A i \in 1..(k - 1) : timeline[i] = 0

Backfilled(before, after) ==
    /\ Len(after) = Len(before)
    /\ IF \A i \in 1..Len(before) : before[i] = 0
       THEN after = before
       ELSE LET k == FirstNonzero(before)
            IN  \A i \in 1..Len(before) :
                    after[i] = (IF i < k THEN before[k] ELSE before[i])

\* C10: the backfill step gives every sample before the first non-zero one the
\* value of that sample and changes no other sample; an all-zero timeline is
\* left as it is.
C10_BackfillLeadingZeros ==
    [][pc = "backfill" /\ pc' = "combine" =>
        \A v \in 1..VOICES : Backfilled(voice_timelines[v], voice_timelines'[v])]_vars

\* a voice whose first note came late has been filled, and a zero after its
\* first note is still there
C10_Witness ==
    /\ pc = "combine"
    /\ Len(smf.tracks) = 1
    /\ DOMAIN notes_by_tick # {}
    /\ 0 \notin DOMAIN notes_by_tick
    /\ voice_timelines[1][1] # 0
    /\ \E j \in 2..Len(voice_timelines[1]) : voice_timelines[1][j] = 0

-----------------------------------------------------------------------------
(* Properties of the frame alignment, checked under Spec *)

\* parse has returned its frames
Parsed == pc \in {"convert", "render", "loop", "done", "panic"}

RECURSIVE AbsTick(_, _)
\* the absolute tick of event i of a track
AbsTick(track, i) == IF i = 0 THEN 0 ELSE AbsTick(track, i - 1) + track[i].delta

\* the ticks at which a track has a note-on with positive velocity
RecordedTicks(track) ==
    {AbsTick(track, i) :
        i \in {j \in 1..Len(track) : track[j].kind = "NoteOn" /\ track[j].vel > 0}}

LastRecordedTick(track) ==
    IF RecordedTicks(track) = {} THEN 0
    ELSE CHOOSE t \in RecordedTicks(track) : \A u \in RecordedTicks(track) : u <= t

\* the number of grid points from tick 0 to the last recorded tick of voice v,
\* 0 for a voice without a track
GridPoints(v) ==
    IF v <= Len(smf.tracks)
    THEN (LastRecordedTick(smf.tracks[v]) \div ticks_per_16th) + 1
    ELSE 0

\* C11: the frames are as many as the longest of the four timelines; a frame
\* holds each voice's backfilled sample where the voice has one and 0 where it
\* has none; a voice without a track is 0 throughout; the timelines, and so
\* the frames, are those of the first four tracks.
C11_FramesAligned ==
    Parsed =>
        /\ Len(voice_timelines) = VOICES
        /\ \A v \in 1..VOICES : Len(voice_timelines[v]) <= Len(voice_leadings)
        /\ \E v \in 1..VOICES : Len(voice_timelines[v]) = Len(voice_leadings)
        /\ \A v \in 1..VOICES : Len(voice_timelines[v]) = GridPoints(v)
        /\ \A i \in 1..Len(voice_leadings) :
              /\ DOMAIN voice_leadings[i] = 1..VOICES
              /\ \A v \in 1..VOICES :
                    voice_leadings[i][v] =
                        (IF i <= Len(voice_timelines[v])
                         THEN voice_timelines[v][i] ELSE 0)
        /\ \A v \in 1..VOICES :
              v > Len(smf.tracks) =>
                  \A i \in 1..Len(voice_leadings) : voice_leadings[i][v] = 0

\* five tracks: voice 1 ends after one sample and is padded with 0, the fifth
\* track is left out
C11_Witness ==
    /\ Parsed
    /\ Len(smf.tracks) = 5
    /\ Len(smf.tracks[5]) = 2
    /\ Len(voice_leadings) = 3
    /\ voice_leadings[1][1] = 60
    /\ voice_leadings[3][1] = 0
    /\ voice_leadings[3][2] = 62

-----------------------------------------------------------------------------
(* Properties of the sampling loop, checked under Spec *)

\* the pitch of the last note-on with positive velocity at tick t
PitchAt(track, t) ==
    LET at == {j \in 1..Len(track) :
                  track[j].kind = "NoteOn" /\ track[j].vel > 0 /\ AbsTick(track, j) = t}
    IN  track[CHOOSE j \in at : \A i \in at : i <= j].key

\* the pitch recorded at the greatest recorded tick <= t, 0 when there is none
Held(track, t) ==
    LET before == {u \in RecordedTicks(track) : u <= t}
    IN  IF before = {} THEN 0
        ELSE PitchAt(track, CHOOSE u \in before : \A w \in before : w <= u)

\* C12 as claimed: before the backfill, sample k of every voice is the pitch
\* recorded at the greatest recorded tick <= k * ticks_per_16th (0 when there
\* is none), wherever the note-ons fall.
C12_SustainSampling ==
    pc \in {"track", "sample", "backfill"} =>
        \A v \in 1..Min(Len(smf.tracks), VOICES) :
            \A k \in 1..Len(voice_timelines[v]) :
                voice_timelines[v][k] = Held(smf.tracks[v], (k - 1) * ticks_per_16th)

-----------------------------------------------------------------------------
(* The colour query on its own: interpolated_color called on a state with any
   pair of hues and any progress from 0 to 1 *)

\* hues in hundredths, a twentieth apart
Hues == {5 * h : h \in 0..19}

\* progress 0, 1/4, 1/2, 3/4 and 1
Progresses == {(k * MOTION_SPEED) \div 4 : k \in 0..4}

InitColor ==
    /\ pc = "color"
    /\ smf = [timing |-> <<"Metrical", 4>>, tracks |-> <<>>]
    /\ transformation = <<>>
    /\ \E c \in Hues, t \in Hues, p \in Progresses :
          state = [Unbuilt EXCEPT !.current_hue = c, !.target_hue = t,
                                  !.transition_progress = p]
    /\ ticks_per_16th = 0
    /\ voice_timelines = <<>>
    /\ track_idx = 0
    /\ notes_by_tick = EmptyMap
    /\ tick = 0
    /\ max_tick = 0
    /\ last_note = 0
    /\ len = 0
    /\ voice_leadings = <<>>
    /\ running = FALSE
    /\ delta_time = 0
    /\ ret = "none"
    /\ sphere_position = <<0, 0, 0>>
    /\ interpolated_hue = 0

\* engine.rs:297: let (r, g, b) = state.interpolated_color()
QueryColor ==
    /\ pc = "color"
    /\ interpolated_hue' = interpolated_color(state)
    /\ pc' = "coloured"
    /\ UNCHANGED <<parseVars, voice_leadings, transformation, state, running,
                   delta_time, ret, sphere_position>>

NextColor == QueryColor

SpecColor == InitColor /\ [][NextColor]_vars

\* C13: the interpolated hue is, round the colour wheel, current_hue plus the
\* fraction `progress` of the shorter signed step d from current_hue to
\* target_hue (|d| <= 0.5, d = target_hue - current_hue modulo 1); from 0.9 to
\* 0.1 at progress 0.5 it is 0.0.
C13_ShorterArc ==
    pc = "coloured" =>
        /\ \E d \in -50..50 :
              /\ (d - (state.target_hue - state.current_hue)) % 100 = 0
              /\ (interpolated_hue
                    - (state.current_hue * MOTION_SPEED + d * state.transition_progress))
                      % (100 * MOTION_SPEED) = 0
        /\ (state.current_hue = 90 /\ state.target_hue = 10
                /\ 2 * state.transition_progress = MOTION_SPEED)
              => interpolated_hue = 0

\* from 0.9 to 0.1 at progress 0.5
C13_Witness ==
    /\ pc = "coloured"
    /\ state.current_hue = 90
    /\ state.target_hue = 10
    /\ 2 * state.transition_progress = MOTION_SPEED
    /\ interpolated_hue = 0

\* C20 as claimed: current_hue and target_hue are in [0,1) and, for progress in
\* [0,1), so is the hue handed to the HSV-to-RGB conversion.
C20_HueInRange ==
    /\ state.current_hue \in 0..99
    /\ state.target_hue \in 0..99
    /\ state.transition_progress < MOTION_SPEED =>
          (0 <= interpolated_hue /\ interpolated_hue < 100 * MOTION_SPEED)

-----------------------------------------------------------------------------
(* AnimationState on its own: update called by an owner that does not stop
   calling when update returns false *)

\* short sequences, the empty one among them
AdvanceInputs ==
    {Cyclic(base, n) :
        base \in (SeqsUpTo(BaseVectors, MaxBase) \ {<<>>}), n \in 0..SmallCount}

InitAdvance ==
    /\ pc = "advance"
    /\ smf = [timing |-> <<"Metrical", 4>>, tracks |-> <<>>]
    /\ transformation \in AdvanceInputs
    /\ state = new(transformation)
    /\ ticks_per_16th = 0
    /\ voice_timelines = <<>>
    /\ track_idx = 0
    /\ notes_by_tick = EmptyMap
    /\ tick = 0
    /\ max_tick = 0
    /\ last_note = 0
    /\ len = 0
    /\ voice_leadings = <<>>
    /\ running = FALSE
    /\ delta_time = 0
    /\ ret = "none"
    /\ sphere_position = <<0, 0, 0>>
    /\ interpolated_hue = 0

\* engine.rs:62-116: one call of state.update(dt); MaxAfterStop caps the
\* boundaries crossed after the end of the sequence
Advance(dt) ==
    /\ pc = "advance"
    /\ state.current_index < Len(state.motions) + MaxAfterStop
    /\ LET r == update(state, dt)
       IN  /\ delta_time' = dt
           /\ state' = r.state
           /\ IF r.panics
              THEN pc' = "panic" /\ UNCHANGED ret
              ELSE ret' = (IF r.ret THEN "true" ELSE "false") /\ pc' = pc
    /\ UNCHANGED <<parseVars, voice_leadings, transformation, running,
                   sphere_position, interpolated_hue>>

NextAdvance == \E dt \in DeltaTimes : Advance(dt)

SpecAdvance == InitAdvance /\ [][NextAdvance]_vars

\* C14 as claimed: once update has returned false, a further call changes no
\* field of the state.
C14_NoOpAfterStop ==
    [][(ret = "false" /\ \E dt \in DeltaTimes : Advance(dt)) => state' = state]_vars

\* C18: whatever calls are made, after the end of the sequence and on a state
\* built from the empty sequence too, motions[current_index] is never read
\* out of range.
C18_IndexInRange == pc # "panic"

\* a boundary crossed by a call made after update had returned false
C18_Witness ==
    /\ pc = "advance"
    /\ ret = "false"
    /\ state.motions # <<>>
    /\ state.current_index > Len(state.motions)

-----------------------------------------------------------------------------
(* timing other than ticks per quarter note *)

\* C15: for an input whose timing is not metrical, parse ends in the error
\* with no track processed and no frame produced; convert is never called and
\* no AnimationState is built.
C15_UnsupportedTimingAborts ==
    smf.timing[1] # "Metrical" =>
        /\ pc \in {"parse", "error"}
        /\ track_idx = 0
        /\ voice_timelines = <<>>
        /\ notes_by_tick = EmptyMap
        /\ voice_leadings = <<>>
        /\ transformation = <<>>
        /\ state = Unbuilt
        /\ ret = "none"

\* parse has returned the error for a file that has a track with notes
C15_Witness ==
    /\ pc = "error"
    /\ smf.timing[1] # "Metrical"
    /\ \E t \in 1..Len(smf.tracks) : smf.tracks[t] # <<>>

-----------------------------------------------------------------------------
(* termination of the sampling loop *)

\* C16 as claimed: for every metrical timing the sampling loop reaches its
\* end, i.e. every pass of the loop body brings tick nearer to the last
\* recorded tick.
C16_SamplingTerminates ==
    [][(pc = "sample" /\ tick <= max_tick /\ pc' = "sample")
          => max_tick' - tick' < max_tick - tick]_vars

-----------------------------------------------------------------------------
(* every motion vector applied once, in order *)

\* C17: after k boundary crossings current_position is the origin plus 10
\* times the sum of the x/y/z components of the first k vectors, and while
\* k < n target_position is current_position plus 10 times those of vector k;
\* so at completion the position is 10 times the total shift, whatever the
\* delta times were.
RECURSIVE Shift(_, _, _, _)
\* the sum of component c of the vectors lo..hi (1-based) of the sequence
Shift(motions, lo, hi, c) ==
    IF lo > hi THEN 0
    ELSE IF lo = hi THEN motions[lo][c]
    ELSE LET mid == (lo + hi) \div 2
         IN  Shift(motions, lo, mid, c) + Shift(motions, mid + 1, hi, c)

\* the x/y/z total shift of the first k vectors
TotalShift(motions, k) ==
    << Shift(motions, 1, k, 2), Shift(motions, 1, k, 3), Shift(motions, 1, k, 4) >>

C17_EveryMotionApplied ==
    StateBuilt /\ state.current_index <= Count =>
        LET k == state.current_index
        IN  /\ state.current_position =
                  Moved(<<0, 0, 0>>, <<0>> \o TotalShift(state.motions, k))
            /\ k < Count =>
                  state.target_position =
                      Moved(state.current_position, state.motions[k + 1])

\* the loop has ended on a three-vector sequence whose total shift is not zero
C17_Witness ==
    /\ pc = "done"
    /\ ret = "false"
    /\ Count = 3
    /\ state.current_index = Count
    /\ TotalShift(state.motions, Count) # <<0, 0, 0>>
    /\ state.current_position =
          [c \in 1..3 |-> 10 * TotalShift(state.motions, Count)[c]]

-----------------------------------------------------------------------------
(* progress between calls *)

\* C19: after construction and after every return of update,
\* 0 <= transition_progress < 1, and so the interpolated position lies
\* between current_position and target_position, never beyond the target.
C19_ProgressBelowOne ==
    /\ 0 <= state.transition_progress
    /\ state.transition_progress < MOTION_SPEED
    /\ \A c \in 1..3 :
          LET from == state.current_position[c] * MOTION_SPEED
              to == state.target_position[c] * MOTION_SPEED
              at == interpolated_position(state)[c]
          IN  /\ Min(from, to) <= at /\ at <= Max(from, to)
              /\ from # to => at # to
    /\ pc = "loop" /\ ret # "none" => sphere_position = interpolated_position(state)

\* a query made part of the way to a target that differs from the position
C19_Witness ==
    /\ pc = "loop"
    /\ state.current_index >= 1
    /\ state.transition_progress = 400
    /\ state.target_position # state.current_position
    /\ sphere_position = interpolated_position(state)
    /\ sphere_position # [c \in 1..3 |-> state.current_position[c] * MOTION_SPEED]

=============================================================================
